---- MODULE Spec2Model ----
(***************************************************************************)
(* Model of harmonica/_forward/prism_magnetic.py: the two public forward   *)
(* modelling operations prism_magnetic and prism_magnetic_component, the   *)
(* helpers _run_sanity_checks, _discard_null_prisms and                    *)
(* _get_magnetic_forward_function, and the jitted kernels                  *)
(* _jit_prism_magnetic_field / _jit_prism_magnetic_component in their      *)
(* serial and parallel (prange over observation points) builds.            *)
(*                                                                         *)
(* Arrays are records [shape, data]: data is the C-order flat buffer, as   *)
(* in numpy.  Sequences are 1-based, so the source's index l is l+1 here.  *)
(* Numbers are integers; "b *= 1e9" is kept as a decimal exponent (exp10). *)
(* A read past the end of a buffer inside the nopython kernels (no bounds  *)
(* check) yields any value of GarbageVals.                                 *)
(***************************************************************************)
EXTENDS Integers, Sequences, FiniteSets, TLC

MaxPrisms == 2
MaxWorkers == 2
NT_EXP == 9

Workers == 1..MaxWorkers
GarbageVals == {0, 1}

\* ------------------------------------------------------------ numpy helpers

RECURSIVE Prod(_)
Prod(s) == IF s = <<>> THEN 1 ELSE Head(s) * Prod(Tail(s))

RECURSIVE Flat(_)
Flat(rows) == IF rows = <<>> THEN <<>> ELSE Head(rows) \o Flat(Tail(rows))

Max(a, b) == IF a >= b THEN a ELSE b

Pad(s, r) == [i \in 1..r |-> IF i <= r - Len(s) THEN 1 ELSE s[i - (r - Len(s))]]

BroadcastPair(s, t) ==
    LET r == Max(Len(s), Len(t))
        ps == Pad(s, r)
        pt == Pad(t, r)
    IN  IF \A i \in 1..r : ps[i] = pt[i] \/ ps[i] = 1 \/ pt[i] = 1
        THEN [ok |-> TRUE, shape |-> [i \in 1..r |-> IF ps[i] = 1 THEN pt[i] ELSE ps[i]]]
        ELSE [ok |-> FALSE, shape |-> <<>>]

\* np.broadcast(*coordinates[:3]): the common shape, or a ValueError
np_broadcast(c) ==
    LET p == BroadcastPair(c[1].shape, c[2].shape)
        q == BroadcastPair(p.shape, c[3].shape)
    IN  IF p.ok /\ q.ok
        THEN [ok |-> TRUE, shape |-> q.shape, size |-> Prod(q.shape)]
        ELSE [ok |-> FALSE, shape |-> <<>>, size |-> 0]

atleast_1d(a) == IF a.shape = <<>> THEN [shape |-> <<1>>, data |-> a.data] ELSE a

ravel(a) == [shape |-> <<Len(a.data)>>, data |-> a.data]

atleast_2d(a) ==
    IF Len(a.shape) = 0 THEN [shape |-> <<1, 1>>, data |-> a.data]
    ELSE IF Len(a.shape) = 1 THEN [shape |-> <<1, a.shape[1]>>, data |-> a.data]
    ELSE a

NRows(t) == t.shape[1]
NCols(t) == t.shape[2]
At(t, i, j) == t.data[(i - 1) * NCols(t) + j]
Row(t, i) == [j \in 1..NCols(t) |-> At(t, i, j)]

\* t[mask, :] for a boolean mask given as the ascending sequence of kept rows
RECURSIVE KeptRows(_, _, _)
KeptRows(mask, i, n) ==
    IF i > n THEN <<>>
    ELSE (IF mask[i] THEN <<i>> ELSE <<>>) \o KeptRows(mask, i + 1, n)

TakeRows(t, mask) ==
    LET idx == KeptRows(mask, 1, NRows(t))
    IN  [shape |-> <<Len(idx), NCols(t)>>,
         data |-> Flat([k \in 1..Len(idx) |-> Row(t, idx[k])])]

Zeros(n) == [i \in 1..n |-> 0]

\* ------------------------------------------------------------ helpers of the module

\* prism_gravity._check_prisms: west > east, south > north or bottom > top
_check_prisms(prisms) ==
    IF \E i \in 1..NRows(prisms) :
          \/ At(prisms, i, 1) > At(prisms, i, 2)
          \/ At(prisms, i, 3) > At(prisms, i, 4)
          \/ At(prisms, i, 5) > At(prisms, i, 6)
    THEN "ValueError: invalid prism"
    ELSE "ok"

_run_sanity_checks_swapped(prisms, magnetization) ==
    IF NCols(magnetization) # 3
    THEN "ValueError: magnetization elements"
    ELSE IF NRows(magnetization) # NRows(prisms)
    THEN "ValueError: magnetization rows"
    ELSE _check_prisms(prisms)

_run_sanity_checks(prisms, magnetization) ==
    IF NRows(magnetization) # NRows(prisms)
    THEN "ValueError: magnetization rows"
    ELSE IF NCols(magnetization) # 3
    THEN "ValueError: magnetization elements"
    ELSE _check_prisms(prisms)

_get_magnetic_forward_function(component) ==
    IF component \notin {"easting", "northing", "upward"}
    THEN "ValueError: invalid component"
    ELSE IF component = "easting" THEN "magnetic_e"
    ELSE IF component = "northing" THEN "magnetic_n"
    ELSE "magnetic_u"

\* null_prisms = (west == east) | (south == north) | (bottom == top)
ZeroVolume(prisms, i) ==
    \/ At(prisms, i, 1) = At(prisms, i, 2)
    \/ At(prisms, i, 3) = At(prisms, i, 4)
    \/ At(prisms, i, 5) = At(prisms, i, 6)

\* (magnetization == 0).all(axis=1)
NullMagnetization(magnetization, i) ==
    \A j \in 1..NCols(magnetization) : At(magnetization, i, j) = 0

_discard_null_prisms_volume_only(prisms, magnetization) ==
    IF NRows(magnetization) # NRows(prisms)
    THEN [err |-> "IndexError: boolean index", prisms |-> prisms, magnetization |-> magnetization]
    ELSE LET keep == [i \in 1..NRows(prisms) |-> ~ (At(prisms, i, 1) = At(prisms, i, 2))]
         IN  [err |-> "ok",
              prisms |-> TakeRows(prisms, keep),
              magnetization |-> TakeRows(magnetization, keep)]

_discard_null_prisms_truncating(prisms, magnetization) ==
    LET n == IF NRows(magnetization) < NRows(prisms)
             THEN NRows(magnetization) ELSE NRows(prisms)
        keep == [i \in 1..n |->
                    ~ (ZeroVolume(prisms, i) \/ NullMagnetization(magnetization, i))]
    IN  [err |-> "ok",
         prisms |-> TakeRows([shape |-> <<n, 6>>, data |-> SubSeq(prisms.data, 1, 6 * n)], keep),
         magnetization |->
             TakeRows([shape |-> <<n, NCols(magnetization)>>,
                       data |-> SubSeq(magnetization.data, 1, n * NCols(magnetization))], keep)]

_discard_null_prisms_misaligned(prisms, magnetization) ==
    IF NRows(magnetization) # NRows(prisms)
    THEN [err |-> "IndexError: boolean index", prisms |-> prisms, magnetization |-> magnetization]
    ELSE LET null_prisms == [i \in 1..NRows(prisms) |->
                                ZeroVolume(prisms, i) \/ NullMagnetization(magnetization, i)]
             keep == [i \in 1..NRows(prisms) |-> ~ null_prisms[i]]
             keepm == [i \in 1..NRows(prisms) |-> ~ NullMagnetization(magnetization, i)]
         IN  [err |-> "ok",
              prisms |-> TakeRows(prisms, keep),
              magnetization |-> TakeRows(magnetization, keepm)]

\* The boolean mask (magnetization == 0).all(axis=1) has one entry per
\* magnetization row; using it to index null_prisms (one entry per prism)
\* raises IndexError when the two lengths differ.
_discard_null_prisms(prisms, magnetization) ==
    IF NRows(magnetization) # NRows(prisms)
    THEN [err |-> "IndexError: boolean index", prisms |-> prisms, magnetization |-> magnetization]
    ELSE LET null_prisms == [i \in 1..NRows(prisms) |->
                                ZeroVolume(prisms, i) \/ NullMagnetization(magnetization, i)]
             keep == [i \in 1..NRows(prisms) |-> ~ null_prisms[i]]
         IN  [err |-> "ok",
              prisms |-> TakeRows(prisms, keep),
              magnetization |-> TakeRows(magnetization, keep)]

\* ------------------------------------------------------------ the analytic primitive
\* choclo.prism.magnetic_field is an external closed-form formula.  It is
\* abstracted by an integer function that is linear in the magnetization and
\* separates distinct points and distinct prisms.
Geo(e, n, u, p) ==
    1 + e + 4 * n + 16 * u
      + 64 * (p[1] + 3 * p[2] + 9 * p[3] + 27 * p[4] + 81 * p[5] + 243 * p[6])

magnetic_field(e, n, u, p, mg) ==
    <<mg[1] * Geo(e, n, u, p) + mg[2],
      mg[2] * Geo(e, n, u, p) + mg[3],
      mg[3] * Geo(e, n, u, p) + mg[1]>>

ComponentIndex(f) == IF f = "magnetic_e" THEN 1 ELSE IF f = "magnetic_n" THEN 2 ELSE 3

\* ------------------------------------------------------------ state

VARIABLES
    args,             \* the call: operation, coordinates, prisms, magnetization,
                      \* component, parallel, progressbar, disable_checks
    pc,               \* position in the public function body
    error,            \* the exception raised, "" when none
    cast,             \* np.broadcast(*coordinates[:3])
    coordinates,      \* the three raveled coordinate arrays (local rebinding)
    prisms,           \* local rebinding of prisms
    magnetization,    \* local rebinding of magnetization
    forward_function, \* the selected single-component primitive
    allocated,        \* the output accumulators exist
    b_e, b_n, b_u,    \* accumulators of prism_magnetic
    result,           \* accumulator of prism_magnetic_component
    exp10,            \* decimal exponent applied to the accumulators
    progress_proxy,   \* [active, total, n]
    owner,            \* prange's assignment of point indices to workers
    workers,          \* per worker: pc, l, m, comp (primitive's value), sum
    calls,            \* invocations of the analytic primitive
    touched,          \* per output slot: the workers that read or wrote it
    nacc,             \* per output slot: completed "+=" statements
    ticks,            \* per point index: progress_proxy.update(1) calls
    ret               \* the returned array(s)

vars == <<args, pc, error, cast, coordinates, prisms, magnetization,
          forward_function, allocated, b_e, b_n, b_u, result, exp10,
          progress_proxy, owner, workers, calls, touched, nacc, ticks, ret>>

inputs == <<args>>
arrays == <<cast, coordinates, prisms, magnetization, forward_function>>
outputs == <<allocated, b_e, b_n, b_u, result, exp10>>
kernel == <<owner, workers, calls, touched, nacc, ticks>>

\* ------------------------------------------------------------ inputs

Arr(s, o) == [shape |-> s, data |-> [i \in 1..Prod(s) |-> o + i - 1]]
Table(rows, c) == [shape |-> <<Len(rows), c>>, data |-> Flat(rows)]

ShapeSet == {<<>>, <<1>>, <<2>>, <<3>>, <<1, 2>>, <<2, 1>>, <<2, 2>>}

PNormal == <<0, 1, 0, 1, 0, 1>>
PrismRowSet ==
    {PNormal,
     <<1, 1, 0, 1, 0, 1>>, <<0, 1, 1, 1, 0, 1>>, <<0, 1, 0, 1, 1, 1>>,
     <<1, 0, 0, 1, 0, 1>>, <<0, 1, 1, 0, 0, 1>>, <<0, 1, 0, 1, 1, 0>>}

RowSeqs(S) == UNION {[1..r -> S] : r \in 0..MaxPrisms}

PrismInputs ==
    {Table(rows, 6) : rows \in RowSeqs(PrismRowSet)}
        \cup {[shape |-> <<6>>, data |-> PNormal]}

MagnetizationInputs ==
    {Table(rows, 3) : rows \in RowSeqs({<<0, 0, 0>>, <<1, 0, 0>>, <<0, 1, 1>>})}
        \cup {Table(rows, 2) : rows \in RowSeqs({<<0, 1>>})}
        \cup {Table(rows, 4) : rows \in RowSeqs({<<0, 0, 0, 1>>})}
        \cup {[shape |-> <<3>>, data |-> <<0, 1, 1>>]}

OpVariants ==
    {<<"field", "">>}
        \cup {<<"component", c>> : c \in {"easting", "northing", "upward", "vertical"}}

Call(o, crd, p, mg, par, bar, dis) ==
    [operation |-> o[1], component |-> o[2], coordinates |-> crd, prisms |-> p,
     magnetization |-> mg, parallel |-> par, progressbar |-> bar,
     disable_checks |-> dis]

\* every triple of coordinate shapes, one prism, serial
ShapeCalls ==
    {Call(o, <<Arr(s1, 0), Arr(s2, 1), Arr(s3, 2)>>,
          Table(<<PNormal>>, 6), Table(<<<<1, 0, 0>>>>, 3), FALSE, FALSE, FALSE) :
        o \in {<<"field", "">>, <<"component", "upward">>},
        s1 \in ShapeSet, s2 \in ShapeSet, s3 \in ShapeSet}

\* every prism and magnetization table, one point, serial
ModelCalls ==
    {Call(<<"field", "">>, <<Arr(<<>>, 0), Arr(<<>>, 1), Arr(<<>>, 2)>>,
          p, mg, FALSE, FALSE, dis) :
        p \in PrismInputs, mg \in MagnetizationInputs, dis \in BOOLEAN}

KernelCoordinates ==
    {<<Arr(<<>>, 1), Arr(<<>>, 0), Arr(<<>>, 2)>>,
     <<Arr(<<2>>, 0), Arr(<<2>>, 1), Arr(<<2>>, 2)>>,
     <<Arr(<<>>, 0), Arr(<<2>>, 1), Arr(<<>>, 2)>>,
     <<Arr(<<2>>, 0), Arr(<<>>, 1), Arr(<<>>, 2)>>,
     <<Arr(<<2, 1>>, 0), Arr(<<1, 2>>, 0), Arr(<<>>, 2)>>,
     <<Arr(<<2>>, 0), Arr(<<3>>, 0), Arr(<<>>, 2)>>}

KernelModels ==
    {<<Table(<<PNormal, PNormal>>, 6), Table(<<<<1, 0, 0>>, <<0, 1, 1>>>>, 3)>>,
     <<Table(<<<<1, 1, 0, 1, 0, 1>>, PNormal>>, 6), Table(<<<<1, 0, 0>>, <<0, 1, 1>>>>, 3)>>,
     <<Table(<<PNormal, <<0, 1, 0, 1, 1, 1>>>>, 6), Table(<<<<0, 0, 0>>, <<0, 1, 1>>>>, 3)>>,
     <<Table(<<>>, 6), Table(<<>>, 3)>>,
     <<Table(<<PNormal>>, 6), Table(<<>>, 3)>>,
     <<Table(<<PNormal>>, 6), Table(<<<<0, 1>>>>, 2)>>,
     <<Table(<<<<1, 0, 0, 1, 0, 1>>>>, 6), Table(<<<<1, 0, 0>>>>, 3)>>}

\* both operations, both execution modes, with and without progress bar
KernelCalls ==
    {Call(o, crd, md[1], md[2], par, bar, dis) :
        o \in OpVariants, crd \in KernelCoordinates, md \in KernelModels,
        par \in BOOLEAN, bar \in BOOLEAN, dis \in BOOLEAN}

Idle == [pc |-> "exit", l |-> 0, m |-> 0, comp |-> <<>>, sum |-> <<>>]

InitWith(calls_) ==
    /\ args \in calls_
    /\ pc = "broadcast"
    /\ error = ""
    /\ cast = [ok |-> FALSE, shape |-> <<>>, size |-> 0]
    /\ coordinates = <<>>
    /\ prisms = args.prisms
    /\ magnetization = args.magnetization
    /\ forward_function = ""
    /\ allocated = FALSE
    /\ b_e = <<>> /\ b_n = <<>> /\ b_u = <<>> /\ result = <<>>
    /\ exp10 = 0
    /\ progress_proxy = [active |-> FALSE, total |-> 0, n |-> 0]
    /\ owner = <<>>
    /\ workers = [w \in Workers |-> Idle]
    /\ calls = 0
    /\ touched = <<>>
    /\ nacc = <<>>
    /\ ticks = <<>>
    /\ ret = <<>>

Init == InitWith(ShapeCalls \cup ModelCalls \cup KernelCalls)

\* ------------------------------------------------------------ the public functions

\* order of the statements of prism_magnetic / prism_magnetic_component
StageAfter_checks_first(stage, operation) ==
    CASE stage = "broadcast" -> "convert"
      [] stage = "convert" -> "check"
      [] stage = "check" -> IF operation = "component" THEN "select" ELSE "discard"
      [] stage = "select" -> "discard"
      [] stage = "discard" -> "allocate"
      [] stage = "allocate" -> "progress"
      [] stage = "progress" -> "kernel"
      [] stage = "kernel" -> "scale"
      [] stage = "scale" -> "return"
      [] OTHER -> "done"

StageAfter(stage, operation) ==
    CASE stage = "broadcast" -> "convert"
      [] stage = "convert" -> IF operation = "component" THEN "select" ELSE "check"
      [] stage = "select" -> "check"
      [] stage = "check" -> "discard"
      [] stage = "discard" -> "allocate"
      [] stage = "allocate" -> "progress"
      [] stage = "progress" -> "kernel"
      [] stage = "kernel" -> "scale"
      [] stage = "scale" -> "return"
      [] OTHER -> "done"

Goto(stage) == pc' = StageAfter(stage, args.operation) /\ error' = error
Raise(e) == pc' = "raised" /\ error' = e

\* cast = np.broadcast(*coordinates[:3])
Broadcast ==
    /\ pc = "broadcast"
    /\ LET c == np_broadcast(args.coordinates)
       IN  IF c.ok
           THEN cast' = c /\ Goto("broadcast")
           ELSE cast' = cast /\ Raise("ValueError: shape mismatch")
    /\ UNCHANGED <<inputs, coordinates, prisms, magnetization, forward_function,
                   outputs, progress_proxy, kernel, ret>>

\* coordinates = tuple(np.atleast_1d(i).ravel() ...); np.atleast_2d(prisms), ...
Convert ==
    /\ pc = "convert"
    /\ coordinates' = [k \in 1..3 |-> ravel(atleast_1d(args.coordinates[k]))]
    /\ prisms' = atleast_2d(prisms)
    /\ magnetization' = atleast_2d(magnetization)
    /\ Goto("convert")
    /\ UNCHANGED <<inputs, cast, forward_function, outputs, progress_proxy, kernel, ret>>

\* forward_function = _get_magnetic_forward_function(component)
SelectComponent ==
    /\ pc = "select"
    /\ LET f == _get_magnetic_forward_function(args.component)
       IN  IF f = "ValueError: invalid component"
           THEN forward_function' = forward_function /\ Raise(f)
           ELSE forward_function' = f /\ Goto("select")
    /\ UNCHANGED <<inputs, cast, coordinates, prisms, magnetization, outputs,
                   progress_proxy, kernel, ret>>

\* if not disable_checks: _run_sanity_checks(prisms, magnetization)
SanityChecks ==
    /\ pc = "check"
    /\ IF args.disable_checks
       THEN Goto("check")
       ELSE LET r == _run_sanity_checks(prisms, magnetization)
            IN  IF r = "ok" THEN Goto("check") ELSE Raise(r)
    /\ UNCHANGED <<inputs, arrays, outputs, progress_proxy, kernel, ret>>

\* prisms, magnetization = _discard_null_prisms(prisms, magnetization)
DiscardNullPrisms ==
    /\ pc = "discard"
    /\ LET r == _discard_null_prisms(prisms, magnetization)
       IN  IF r.err = "ok"
           THEN /\ prisms' = r.prisms
                /\ magnetization' = r.magnetization
                /\ Goto("discard")
           ELSE /\ UNCHANGED <<prisms, magnetization>>
                /\ Raise(r.err)
    /\ UNCHANGED <<inputs, cast, coordinates, forward_function, outputs,
                   progress_proxy, kernel, ret>>

\* b_e, b_n, b_u = tuple(np.zeros(cast.size) ...)  /  result = np.zeros(cast.size)
Allocate ==
    /\ pc = "allocate"
    /\ allocated' = TRUE
    /\ IF args.operation = "field"
       THEN /\ b_e' = Zeros(cast.size) /\ b_n' = Zeros(cast.size) /\ b_u' = Zeros(cast.size)
            /\ result' = result
       ELSE /\ result' = Zeros(cast.size)
            /\ UNCHANGED <<b_e, b_n, b_u>>
    /\ touched' = [l \in 1..cast.size |-> {}]
    /\ nacc' = [l \in 1..cast.size |-> 0]
    /\ Goto("allocate")
    /\ UNCHANGED <<inputs, arrays, exp10, progress_proxy, owner, workers, calls, ticks, ret>>

\* utils.initialize_progressbar(coordinates[0].size, progressbar)
initialize_progressbar(total, progressbar) ==
    [active |-> progressbar, total |-> IF progressbar THEN total ELSE 0, n |-> 0]

EnterProgress ==
    /\ pc = "progress"
    /\ progress_proxy' = initialize_progressbar(Len(coordinates[1].data), args.progressbar)
    /\ ticks' = [l \in 1..Len(coordinates[1].data) |-> 0]
    /\ Goto("progress")
    /\ UNCHANGED <<inputs, arrays, outputs, owner, workers, calls, touched, nacc, ret>>

\* ------------------------------------------------------------ the kernels

NPoints == Len(coordinates[1].data)   \* coordinates[0].size, the prange bound
NPrisms == NRows(prisms)              \* prisms.shape[0], after the discard

\* coordinates[k][l]: unchecked in nopython mode
CoordRead(k, l) ==
    IF l <= Len(coordinates[k].data) THEN {coordinates[k].data[l]} ELSE GarbageVals

\* magnetization[m, j]: unchecked, row-major offset m * ncols + j
MagRead(m, j) ==
    LET pos == (m - 1) * NCols(magnetization) + j
    IN  IF pos <= Len(magnetization.data) THEN {magnetization.data[pos]} ELSE GarbageVals

\* the values the primitive can return for point l and prism m
FieldOutcomes(l, m) ==
    {magnetic_field(e, n, u, Row(prisms, m), <<m1, m2, m3>>) :
        e \in CoordRead(1, l), n \in CoordRead(2, l), u \in CoordRead(3, l),
        m1 \in MagRead(m, 1), m2 \in MagRead(m, 2), m3 \in MagRead(m, 3)}

\* what one call adds: three components, or the selected one
Contribution(f) ==
    IF args.operation = "field" THEN f ELSE <<f[ComponentIndex(forward_function)]>>

Slot(l) == IF args.operation = "field" THEN <<b_e[l], b_n[l], b_u[l]>> ELSE <<result[l]>>

\* prange hands every index to one worker; each worker takes its indices in
\* ascending order
NextPoint(o, w, after) ==
    LET mine == {l \in DOMAIN o : o[l] = w /\ l > after}
    IN  IF mine = {} THEN 0 ELSE CHOOSE l \in mine : \A k \in mine : l <= k

EnterPoint(l) ==
    IF l = 0 THEN Idle
    ELSE [pc |-> IF NPrisms = 0 THEN "tick" ELSE "compute",
          l |-> l, m |-> IF NPrisms = 0 THEN 0 ELSE 1, comp |-> <<>>, sum |-> <<>>]

\* for l in prange(coordinates[0].size) / for l in range(...) in the serial build
Partitions ==
    IF args.parallel THEN [1..NPoints -> Workers] ELSE {[l \in 1..NPoints |-> 1]}

KernelStart ==
    /\ pc = "kernel"
    /\ \E o \in Partitions :
          /\ owner' = o
          /\ workers' = [w \in Workers |-> EnterPoint(NextPoint(o, w, 0))]
    /\ pc' = "running"
    /\ UNCHANGED <<inputs, error, arrays, outputs, progress_proxy, calls, touched,
                   nacc, ticks, ret>>

\* easting_comp, northing_comp, upward_comp = magnetic_field(...)
Compute(w) ==
    /\ pc = "running"
    /\ workers[w].pc = "compute"
    /\ \E f \in FieldOutcomes(workers[w].l, workers[w].m) :
          workers' = [workers EXCEPT ![w].comp = Contribution(f), ![w].pc = "load"]
    /\ calls' = calls + 1
    /\ UNCHANGED <<inputs, pc, error, arrays, outputs, progress_proxy, owner,
                   touched, nacc, ticks, ret>>

\* b[l] += comp, first half: read the slot and add
Load(w) ==
    /\ pc = "running"
    /\ workers[w].pc = "load"
    /\ LET l == workers[w].l
           c == workers[w].comp
       IN  /\ workers' = [workers EXCEPT
                  ![w].sum = [i \in 1..Len(c) |-> Slot(l)[i] + c[i]],
                  ![w].pc = "store"]
           /\ touched' = [touched EXCEPT ![l] = @ \cup {w}]
    /\ UNCHANGED <<inputs, pc, error, arrays, outputs, progress_proxy, owner,
                   calls, nacc, ticks, ret>>

\* b[l] += comp, second half: write the slot; then the next m, or the tick
Store(w) ==
    /\ pc = "running"
    /\ workers[w].pc = "store"
    /\ LET l == workers[w].l
           v == workers[w].sum
       IN  /\ IF args.operation = "field"
              THEN /\ b_e' = [b_e EXCEPT ![l] = v[1]]
                   /\ b_n' = [b_n EXCEPT ![l] = v[2]]
                   /\ b_u' = [b_u EXCEPT ![l] = v[3]]
                   /\ result' = result
              ELSE /\ result' = [result EXCEPT ![l] = v[1]]
                   /\ UNCHANGED <<b_e, b_n, b_u>>
           /\ touched' = [touched EXCEPT ![l] = @ \cup {w}]
           /\ nacc' = [nacc EXCEPT ![l] = @ + 1]
    /\ workers' = [workers EXCEPT
           ![w].comp = <<>>, ![w].sum = <<>>,
           ![w].m = IF workers[w].m < NPrisms THEN workers[w].m + 1 ELSE 0,
           ![w].pc = IF workers[w].m < NPrisms THEN "compute" ELSE "tick"]
    /\ UNCHANGED <<inputs, pc, error, arrays, allocated, exp10, progress_proxy,
                   owner, calls, ticks, ret>>

\* numba_progress.ProgressBar.update(k): an atomic add on the shared counter
update(p, k) == [p EXCEPT !.n = @ + k]

\* if update_progressbar: progress_proxy.update(1); then the next l
Tick(w) ==
    /\ pc = "running"
    /\ workers[w].pc = "tick"
    /\ LET l == workers[w].l
       IN  /\ IF progress_proxy.active
              THEN /\ progress_proxy' = update(progress_proxy, 1)
                   /\ ticks' = [ticks EXCEPT ![l] = @ + 1]
              ELSE UNCHANGED <<progress_proxy, ticks>>
           /\ workers' = [workers EXCEPT ![w] = EnterPoint(NextPoint(owner, w, l))]
    /\ UNCHANGED <<inputs, pc, error, arrays, outputs, owner, calls, touched, nacc, ret>>

\* every worker has finished its indices: the kernel returns, the with block ends
KernelJoin ==
    /\ pc = "running"
    /\ \A w \in Workers : workers[w].pc = "exit"
    /\ Goto("kernel")
    /\ UNCHANGED <<inputs, arrays, outputs, progress_proxy, kernel, ret>>

\* b_e *= 1e9; b_n *= 1e9; b_u *= 1e9  /  result *= 1e9
Scale ==
    /\ pc = "scale"
    /\ exp10' = exp10 + NT_EXP
    /\ Goto("scale")
    /\ UNCHANGED <<inputs, arrays, allocated, b_e, b_n, b_u, result, progress_proxy,
                   kernel, ret>>

reshape(data, shape) == [shape |-> shape, data |-> data]

\* return b_e.reshape(cast.shape), ...  /  return result.reshape(cast.shape)
Return ==
    /\ pc = "return"
    /\ ret' = IF args.operation = "field"
              THEN <<reshape(b_e, cast.shape), reshape(b_n, cast.shape),
                     reshape(b_u, cast.shape)>>
              ELSE reshape(result, cast.shape)
    /\ Goto("return")
    /\ UNCHANGED <<inputs, arrays, outputs, progress_proxy, kernel>>

Next ==
    \/ Broadcast
    \/ Convert
    \/ SelectComponent
    \/ SanityChecks
    \/ DiscardNullPrisms
    \/ Allocate
    \/ EnterProgress
    \/ KernelStart
    \/ \E w \in Workers : Compute(w)
    \/ \E w \in Workers : Load(w)
    \/ \E w \in Workers : Store(w)
    \/ \E w \in Workers : Tick(w)
    \/ KernelJoin
    \/ Scale
    \/ Return

Spec == Init /\ [][Next]_vars

\* The calls that exercise the kernels, under the scheduling of the code: the
\* function body and every prange worker keep running, nothing blocks.
KernelSpec == InitWith(KernelCalls) /\ [][Next]_vars /\ WF_vars(Next)

\* ------------------------------------------------------------ vocabulary of the claims

PrismsIn == atleast_2d(args.prisms)
MagnetizationIn == atleast_2d(args.magnetization)

Broadcastable == np_broadcast(args.coordinates).ok
ComponentOk ==
    args.operation = "field" \/ args.component \in {"easting", "northing", "upward"}

RowsMismatch == NRows(MagnetizationIn) # NRows(PrismsIn)
ColumnsWrong == NCols(MagnetizationIn) # 3
InvertedBounds ==
    \E i \in 1..NRows(PrismsIn) :
        \/ At(PrismsIn, i, 1) > At(PrismsIn, i, 2)
        \/ At(PrismsIn, i, 3) > At(PrismsIn, i, 4)
        \/ At(PrismsIn, i, 5) > At(PrismsIn, i, 6)
ValidModel == ~ RowsMismatch /\ ~ ColumnsWrong /\ ~ InvertedBounds

\* prism i of the input is null: zero volume or all-zero magnetization
NullInput(i) ==
    \/ At(PrismsIn, i, 1) = At(PrismsIn, i, 2)
    \/ At(PrismsIn, i, 3) = At(PrismsIn, i, 4)
    \/ At(PrismsIn, i, 5) = At(PrismsIn, i, 6)
    \/ /\ At(MagnetizationIn, i, 1) = 0
       /\ At(MagnetizationIn, i, 2) = 0
       /\ At(MagnetizationIn, i, 3) = 0

BeforeKernel == {"broadcast", "convert", "select", "check", "discard", "allocate", "progress", "kernel"}
AfterKernel == {"scale", "return", "done"}
UpToDiscard == {"broadcast", "convert", "select", "check", "discard"}

\* the coordinates of point l of the broadcast, in C order over cast.shape
BroadcastOffset(s, l) ==
    LET r == Len(cast.shape)
        q == Len(s)
        multi == [i \in 1..r |-> ((l - 1) \div Prod(SubSeq(cast.shape, i + 1, r))) % cast.shape[i]]
        term == [j \in 1..q |->
                    (IF s[j] = 1 THEN 0 ELSE multi[j + (r - q)]) * Prod(SubSeq(s, j + 1, q))]
    IN  LET RECURSIVE Total(_)
            Total(j) == IF j = 0 THEN 0 ELSE term[j] + Total(j - 1)
        IN  Total(q)

BroadcastPoint(l) ==
    [k \in 1..3 |->
        args.coordinates[k].data[BroadcastOffset(args.coordinates[k].shape, l) + 1]]

ZeroSlot == IF args.operation = "field" THEN <<0, 0, 0>> ELSE <<0>>
AddSlot(a, b) == [i \in 1..Len(a) |-> a[i] + b[i]]

\* the field of the surviving prisms 1..m at broadcast point l
RECURSIVE FieldSum(_, _)
FieldSum(l, m) ==
    IF m = 0 THEN ZeroSlot
    ELSE AddSlot(FieldSum(l, m - 1),
                 Contribution(magnetic_field(BroadcastPoint(l)[1], BroadcastPoint(l)[2],
                                             BroadcastPoint(l)[3], Row(prisms, m),
                                             Row(magnetization, m))))

\* the values the serial double loop can leave in slot l after prisms 1..m
RECURSIVE SerialSums(_, _)
SerialSums(l, m) ==
    IF m = 0 THEN {ZeroSlot}
    ELSE {AddSlot(a, Contribution(f)) : a \in SerialSums(l, m - 1), f \in FieldOutcomes(l, m)}

SerialSlotValues(l) == IF l <= NPoints THEN SerialSums(l, NPrisms) ELSE {ZeroSlot}

\* the values the operation can return at point l for input prism i alone
SinglePrismValues(l, i) ==
    IF NullInput(i) \/ l > NPoints THEN {ZeroSlot}
    ELSE {Contribution(magnetic_field(e, n, u, Row(PrismsIn, i), Row(MagnetizationIn, i))) :
            e \in CoordRead(1, l), n \in CoordRead(2, l), u \in CoordRead(3, l)}

RECURSIVE SuperpositionSums(_, _)
SuperpositionSums(l, i) ==
    IF i = 0 THEN {ZeroSlot}
    ELSE {AddSlot(a, v) : a \in SuperpositionSums(l, i - 1), v \in SinglePrismValues(l, i)}

RetSlot(l) ==
    IF args.operation = "field"
    THEN <<ret[1].data[l], ret[2].data[l], ret[3].data[l]>>
    ELSE <<ret.data[l]>>

RECURSIVE SumSeq(_)
SumSeq(q) == IF q = <<>> THEN 0 ELSE Head(q) + SumSeq(Tail(q))

\* ------------------------------------------------------------ claims

\* C1: for mutually broadcastable coordinate arrays the three flattened
\* sequences all have the length of the broadcast (the size of each output),
\* and when the kernel has finished every output index holds the field
\* computed at the coordinate triple of that broadcast point.
C1_FlattenedPointsCoverBroadcast ==
    /\ coordinates # <<>> =>
          \A k \in 1..3 : Len(coordinates[k].data) = cast.size
    /\ (pc \in AfterKernel /\ ValidModel) =>
          \A l \in 1..cast.size :
              nacc[l] = NPrisms /\ Slot(l) = FieldSum(l, NPrisms)

\* C2 (as stated): with disable_checks=True a call on a model that violates
\* the invariants (row mismatch, column count other than 3, inverted bounds)
\* never raises.
C2_DisabledChecksNeverRaise ==
    (args.disable_checks /\ Broadcastable /\ ComponentOk /\ ~ ValidModel)
        => pc # "raised"

\* C2 (amended): with disable_checks=True, a wrong magnetization column count
\* or inverted bounds never raise and the call runs on to completion, while a
\* magnetization row count different from the prism row count raises
\* IndexError inside _discard_null_prisms, before any output is allocated and
\* before the kernel runs.
C2_DisabledChecksRaiseOnlyOnRowMismatch ==
    (args.disable_checks /\ Broadcastable /\ ComponentOk) =>
        /\ pc = "raised" =>
              /\ RowsMismatch
              /\ error = "IndexError: boolean index"
              /\ ~ allocated /\ calls = 0
        /\ RowsMismatch => pc \in UpToDiscard \cup {"raised"}
        /\ pc \notin {"done", "raised"} => ENABLED Next

C2_Witness ==
    /\ args.disable_checks /\ ~ RowsMismatch /\ ColumnsWrong
    /\ NRows(PrismsIn) > 0
    /\ pc = "done" /\ calls > 0

\* C3: a valid model with zero prisms, or whose prisms are all null, never
\* makes either operation fail, never reaches the analytic primitive, and
\* leaves every output slot, and every returned value, exactly zero.
C3_NullModelGivesZeroField ==
    (ValidModel /\ \A i \in 1..NRows(PrismsIn) : NullInput(i)) =>
        /\ pc = "raised" =>
              error \in {"ValueError: shape mismatch", "ValueError: invalid component"}
        /\ calls = 0
        /\ allocated => \A l \in 1..cast.size : Slot(l) = ZeroSlot
        /\ pc = "done" => \A l \in 1..cast.size : RetSlot(l) = ZeroSlot

C3_Witness ==
    /\ ValidModel /\ NRows(PrismsIn) = 2
    /\ \A i \in 1..NRows(PrismsIn) : NullInput(i)
    /\ args.operation = "component" /\ args.parallel
    /\ pc = "done" /\ cast.size = 2

ValidationErrors ==
    {"ValueError: invalid component", "ValueError: magnetization rows",
     "ValueError: magnetization elements", "ValueError: invalid prism"}

\* C4: when a validation error is raised no accumulator has been allocated,
\* the primitive has not been called and no progress has been signalled; and
\* in prism_magnetic_component an invalid component name is the error that
\* is reported, the model never being checked.
C4_ValidationBeforeNumericWork ==
    /\ (pc = "raised" /\ error \in ValidationErrors) =>
          /\ ~ allocated
          /\ b_e = <<>> /\ b_n = <<>> /\ b_u = <<>> /\ result = <<>>
          /\ calls = 0
          /\ progress_proxy.n = 0 /\ ticks = <<>>
    /\ (args.operation = "component" /\ ~ ComponentOk) =>
          /\ pc \in {"broadcast", "convert", "select", "raised"}
          /\ (pc = "raised" /\ Broadcastable) => error = "ValueError: invalid component"

C4_Witness ==
    /\ args.operation = "component" /\ ~ ComponentOk
    /\ ~ args.disable_checks /\ InvertedBounds
    /\ pc = "raised" /\ error = "ValueError: invalid component"

\* C5: at kernel completion every accumulator slot of a parallel run holds
\* the value the serial kernel leaves there on the same points, prisms and
\* magnetizations.
C5_ParallelEqualsSerial ==
    (pc = "scale" /\ args.parallel /\ ValidModel) =>
        \A l \in 1..cast.size : \A v \in SerialSlotValues(l) : Slot(l) = v

\* C6: the field returned at each point for the whole model is the sum over
\* the input prisms of the fields returned for each prism alone.
C6_Superposition ==
    (pc = "done" /\ ValidModel) =>
        \A l \in 1..cast.size :
            \A v \in SuperpositionSums(l, NRows(PrismsIn)) : RetSlot(l) = v

\* the row numbers of the input that are not null, ascending
Survivors ==
    SelectSeq([i \in 1..NRows(PrismsIn) |-> i], LAMBDA i : ~ NullInput(i))

\* C7: after _discard_null_prisms the prisms and the magnetization are the
\* rows of the caller's tables that are not null (zero volume, or three zero
\* magnetization components), the same rows of both in their original order.
C7_DiscardKeepsAlignedSurvivors ==
    (pc \notin UpToDiscard \cup {"raised"} /\ NCols(MagnetizationIn) = 3) =>
        /\ prisms.shape = <<Len(Survivors), 6>>
        /\ magnetization.shape = <<Len(Survivors), 3>>
        /\ \A k \in 1..Len(Survivors) :
              /\ Row(prisms, k) = Row(PrismsIn, Survivors[k])
              /\ Row(magnetization, k) = Row(MagnetizationIn, Survivors[k])

C7_Witness ==
    /\ pc = "allocate" /\ NCols(MagnetizationIn) = 3
    /\ NRows(PrismsIn) = 2 /\ Survivors = <<2>>
    /\ Row(MagnetizationIn, 1) # Row(MagnetizationIn, 2)

\* the error of the first violated check, "" when the model is valid
FirstViolation ==
    IF RowsMismatch THEN "ValueError: magnetization rows"
    ELSE IF ColumnsWrong THEN "ValueError: magnetization elements"
    ELSE IF InvertedBounds THEN "ValueError: invalid prism"
    ELSE ""

\* C8: with validation enabled, once the checks have run the call has raised
\* exactly when the row counts differ, the column count is not 3 or a bound
\* is inverted, with the error of the first violated check; equal bounds
\* raise nothing.
C8_SanityChecksFirstViolation ==
    (~ args.disable_checks /\ Broadcastable /\ ComponentOk
        /\ pc \notin {"broadcast", "convert", "select", "check"}) =>
        /\ error = FirstViolation
        /\ pc = "raised" <=> FirstViolation # ""

C8_Witness ==
    /\ ~ args.disable_checks /\ RowsMismatch /\ ColumnsWrong
    /\ pc = "raised" /\ error = "ValueError: magnetization rows"

\* C9: no output slot is touched by two workers, a worker only works on a
\* point it owns, the prism tables are not written while the kernel runs, and
\* at completion of the parallel kernel every slot holds the sum of the
\* contributions of the surviving prisms at its point.
C9_DisjointSlotsAndFullSums ==
    /\ \A l \in DOMAIN touched : Cardinality(touched[l]) <= 1
    /\ pc = "running" =>
          \A w \in Workers : workers[w].l # 0 => owner[workers[w].l] = w
    /\ pc \in {"running", "scale"} =>
          /\ prisms = _discard_null_prisms(PrismsIn, MagnetizationIn).prisms
          /\ magnetization = _discard_null_prisms(PrismsIn, MagnetizationIn).magnetization
    /\ (pc = "scale" /\ args.parallel /\ ValidModel) =>
          \A l \in 1..cast.size : Slot(l) = FieldSum(l, NPrisms)

\* C10: with a progress sink every observation point (every slot of the
\* outputs) is signalled exactly once and only after all its prisms were
\* accumulated, every signal adds one to the counter and leaves the
\* accumulators alone, no signal is lost, after the kernel the counter equals
\* the number of observation points (also without prisms), the accumulators
\* are those of the double loop run without a sink, and the call terminates.
C10_ProgressOncePerPoint ==
    /\ [](/\ \A l \in DOMAIN ticks :
                ticks[l] <= 1 /\ (ticks[l] = 1 => nacc[l] = NPrisms)
          /\ progress_proxy.n = SumSeq(ticks)
          /\ (pc \in AfterKernel /\ args.progressbar) =>
                /\ progress_proxy.n = cast.size
                /\ \A l \in 1..cast.size : l \in DOMAIN ticks /\ ticks[l] = 1
          /\ (pc \in AfterKernel /\ args.progressbar /\ ValidModel) =>
                \A l \in 1..cast.size :
                    \A v \in SerialSlotValues(l) : Slot(l) = v)
    /\ [][progress_proxy'.n # progress_proxy.n =>
            /\ progress_proxy'.n = progress_proxy.n + 1
            /\ UNCHANGED <<b_e, b_n, b_u, result>>]_vars
    /\ <>(pc \in {"done", "raised"})

====
